---- MODULE Spec2Model ----
(***************************************************************************)
(* Model of the schema-migration engine of                                 *)
(* apps/backend/src/migrations/core (MigrationRunner in                    *)
(* MigrationGenerator.ts): the migration files on disk, the tracking table *)
(* schema_migrations, the schema effects of up/down, and the migrate(),    *)
(* rollback() and status() operations, each runMigration() step split at   *)
(* its await points.                                                       *)
(***************************************************************************)
EXTENDS Integers, Sequences, FiniteSets, TLC

\* ---------------------------------------------------------------- bounds
\* Migration ids are 1..MaxId (the 14-digit timestamps, in their order).
MaxId == 3
\* The clock (in seconds, the precision of a DATETIME column) is 0..MaxTime.
MaxTime == 1
\* The directory of the catalog specification holds at most MaxDir names.
MaxDir == 2
\* The generator is called at most MaxGen times, over MaxTick seconds.
MaxGen == 2
MaxTick == 1
\* /^(\d{14})_(.+)\.(ts|js)$/: the width of the timestamp.
IdWidth == 14

Ids == 1..MaxId
Procs == {"p1", "p2"}
\* The one caller of the sequential specification.
Callers == {"p1"}
NoRec == [id |-> 0, batch |-> 0, at |-> 0]
NoFail == [id |-> 0, step |-> "none"]

VARIABLES
    tableExists,  \* the table schema_migrations exists
    table,        \* committed rows of schema_migrations, in insertion order
    schema,       \* ids whose up effect is present in the database schema
    files,        \* ids of the well-formed migration files in migrationsPath
    now,          \* the latest reading of the clock
    pc,           \* position of each process in migrate()/rollback()
    op,           \* the operation each process is running
    todo,         \* remaining iterations of the for-of loop (head = current)
    batch,        \* the local `batch` of migrate() (0: undefined)
    txw,          \* writes of the open transaction, not yet committed
    result,       \* outcome of the invocation: none | ok | error
    pend0,        \* history: the list the loop started with
    table0,       \* history: the table when the invocation started
    invoked,      \* history: ids whose up/down was called in this invocation
    failed,       \* history: the step and id that threw
    thrown,       \* the error that leaves runMigration: none | a step | rollback
    warned,       \* history: records skipped with a warning (file not found)
    step0,        \* history: schema and table when the current step began
    last,         \* history: the previous completed invocation
    lastEmptied,  \* history: the batch the latest rollback() emptied, or 0
    lastRun,      \* history: table and pending list before the previous one
    modules,      \* what the file of each id exports
    dir,          \* the names readdir(migrationsPath) returns, in its order
    listing,      \* the descriptors the latest getMigrationFiles() returned
    warns,        \* the names the latest getMigrationFiles() warned about
    clock,        \* the Date the generator reads with new Date()
    disk,         \* the files the generator has written: name and content
    written,      \* history: the file name of each generate(), in order
    catalog,      \* the latest getMigrationFiles() over the generated files
    trial         \* the latest try of a generated migration on a schema

vars == <<tableExists, table, schema, files, now, pc, op, todo, batch, txw,
          result, pend0, table0, invoked, failed, thrown, warned, step0, last,
          lastEmptied, lastRun, modules, dir, listing, warns, clock, disk,
          written, catalog, trial>>

dbVars == <<tableExists, table, schema>>
envVars == <<files, now>>
histVars == <<last, lastEmptied, lastRun>>
\* What migrate(), rollback() and status() never write.
genVars == <<clock, disk, written, catalog, trial>>
auxVars == <<modules, dir, listing, warns, genVars>>

\* ------------------------------------------------------------- helpers
RECURSIVE SetMax(_)
SetMax(S) == IF S = {} THEN 0
             ELSE LET x == CHOOSE y \in S : TRUE
                      m == SetMax(S \ {x})
                  IN IF x > m THEN x ELSE m

RECURSIVE SortAsc(_)
SortAsc(S) == IF S = {} THEN <<>>
              ELSE LET m == CHOOSE x \in S : \A y \in S : x <= y
                   IN <<m>> \o SortAsc(S \ {m})

Range(s) == {s[i] : i \in 1..Len(s)}
RecIds(t) == {t[i].id : i \in 1..Len(t)}
IdsOf(s) == [i \in 1..Len(s) |-> s[i].id]
Reverse(s) == [i \in 1..Len(s) |-> s[Len(s) + 1 - i]]
Perms(n) == {f \in [1..n -> 1..n] : \A i, j \in 1..n : i # j => f[i] # f[j]}

\* ------------------------------------------------------- MigrationRunner
\* initialize(): create the table when showAllTables() does not list it.
initialize(exists) == IF ~exists THEN TRUE ELSE exists

\* Mutant: the table is created anew on every call (drop and create).
initializeTableAnew(exists, t) == <<>>

\* initialize(), lines 376-397: the rows of the table afterwards; createTable
\* runs only when the table is absent and makes it empty.
initializeTable(exists, t) == IF ~exists THEN <<>> ELSE t

\* Mutant: the comparator reversed (b.timestamp - a.timestamp).
getMigrationFilesDesc(fs) == Reverse(SortAsc(fs))

\* getMigrationFiles(): one descriptor per well-formed file, sorted by
\* a.timestamp - b.timestamp (ascending id).
getMigrationFiles(fs) == SortAsc(fs)

\* ORDER BY batch ASC, executed_at ASC: rows with equal (batch, executed_at)
\* come in an order the database is free to choose.
OrderKeyLeq(a, b) == a.batch < b.batch \/ (a.batch = b.batch /\ a.at <= b.at)

\* getExecutedMigrations(): every sequence the SELECT may return.
getExecutedMigrations(t) ==
    {[i \in 1..Len(t) |-> t[f[i]]] :
        f \in {g \in Perms(Len(t)) :
                 \A i \in 1..(Len(t) - 1) : OrderKeyLeq(t[g[i]], t[g[i + 1]])}}

\* Mutant: COUNT(*) + 1 in place of MAX(batch) + 1.
getNextBatchCount(t) == Len(t) + 1

\* getNextBatch(): (MAX(batch) || 0) + 1.
getNextBatch(t) == SetMax({t[i].batch : i \in 1..Len(t)}) + 1

\* Mutant: the filter on the executed ids is lost.
getPendingMigrationsAll(fs, t) == getMigrationFiles(fs)

\* getPendingMigrations(): allMigrations.filter(m => !executedIds.has(m.id)).
getPendingMigrations(fs, t) ==
    LET executedIds == RecIds(t)
        NotExecuted(i) == i \notin executedIds
    IN SelectSeq(getMigrationFiles(fs), NotExecuted)

\* Mutant: the filter on the last batch is lost.
migrationsToRollbackAll(executed) == Reverse(executed)

\* rollback(), lines 615-616: the records of the last batch, reversed.
migrationsToRollback(executed) ==
    LET lastBatch == SetMax({executed[i].batch : i \in 1..Len(executed)})
        InLast(r) == r.batch = lastBatch
    IN Reverse(SelectSeq(executed, InLast))

\* ------------------------------------------------ file names, in full
\* A file name is a sequence of characters. The names of the catalog
\* specification are put together from a timestamp part, a separator, a slug
\* and an extension.
Zeros(n) == [i \in 1..n |-> "0"]
Stamps == {Zeros(IdWidth - 2) \o <<"1">>,
           Zeros(IdWidth - 1) \o <<"1">>,
           Zeros(IdWidth - 1) \o <<"2">>,
           Zeros(IdWidth - 1) \o <<"x">>,
           Zeros(IdWidth) \o <<"1">>}
ExtTs == <<".", "t", "s">>
ExtJs == <<".", "j", "s">>
ExtMd == <<".", "m", "d">>
NameParts == [stamp : Stamps, sep : {"_", "-"}, slug : {<<>>, <<"a">>},
              ext : {ExtTs, ExtJs, ExtMd}]
FileName(n) == n.stamp \o <<n.sep>> \o n.slug \o n.ext
NoListing == [files |-> <<>>, of |-> <<>>]

IsDigit(c) == c \in {"0", "1", "2", "3", "4", "5", "6", "7", "8", "9"}
DigitVal(c) ==
    CASE c = "0" -> 0 [] c = "1" -> 1 [] c = "2" -> 2 [] c = "3" -> 3
      [] c = "4" -> 4 [] c = "5" -> 5 [] c = "6" -> 6 [] c = "7" -> 7
      [] c = "8" -> 8 [] c = "9" -> 9

\* filename.endsWith(suffix).
EndsWith(name, suffix) ==
    /\ Len(name) >= Len(suffix)
    /\ SubSeq(name, Len(name) - Len(suffix) + 1, Len(name)) = suffix

\* Mutant: \d+ in place of \d{14}.
MatchesPatternAnyWidth(name) ==
    \E w \in 1..Len(name) :
        /\ \A i \in 1..w : IsDigit(name[i])
        /\ Len(name) >= w + 5
        /\ name[w + 1] = "_"
        /\ EndsWith(name, ExtTs) \/ EndsWith(name, ExtJs)

\* Line 421: filename.match(/^(\d{14})_(.+)\.(ts|js)$/): fourteen digits, an
\* underscore, one character or more, then .ts or .js at the end.
MatchesPattern(name) ==
    /\ Len(name) >= IdWidth + 5
    /\ \A i \in 1..IdWidth : IsDigit(name[i])
    /\ name[IdWidth + 1] = "_"
    /\ EndsWith(name, ExtTs) \/ EndsWith(name, ExtJs)

\* Lines 427-437: the descriptor of a matching name; id is the first group,
\* name the second.
Descriptor(name) ==
    [id |-> SubSeq(name, 1, IdWidth),
     name |-> SubSeq(name, IdWidth + 2, Len(name) - 3),
     filename |-> name]

\* a.timestamp - b.timestamp < 0, timestamp = parseInt(id): the numbers of
\* two strings of fourteen digits compare as the strings do, digit by digit
\* from the left (both are below 2^53, parseInt is exact).
RECURSIVE TimestampLess(_, _)
TimestampLess(a, b) ==
    IF a = <<>> \/ b = <<>> THEN FALSE
    ELSE IF DigitVal(Head(a)) # DigitVal(Head(b))
         THEN DigitVal(Head(a)) < DigitVal(Head(b))
         ELSE TimestampLess(Tail(a), Tail(b))

\* Line 441: Array.prototype.sort with that comparator (a stable sort).
RECURSIVE SortByTimestamp(_)
SortByTimestamp(ds) ==
    IF ds = <<>> THEN <<>>
    ELSE LET n == Len(ds)
             front == SortByTimestamp(SubSeq(ds, 1, n - 1))
             After(d) == TimestampLess(ds[n].id, d.id)
             NotAfter(d) == ~TimestampLess(ds[n].id, d.id)
         IN SelectSeq(front, NotAfter) \o <<ds[n]>> \o SelectSeq(front, After)

\* Lines 415-438: the loop over the names of readdir(); a name that ends in
\* neither .ts nor .js is passed over, one that does and fails the pattern
\* is warned about.
HasScriptExt(name) == EndsWith(name, ExtTs) \/ EndsWith(name, ExtJs)
IsMigrationName(name) == HasScriptExt(name) /\ MatchesPattern(name)
WarnedName(name) == HasScriptExt(name) /\ ~MatchesPattern(name)

\* getMigrationFiles(), lines 410-446, on the names as readdir() gives them.
readCatalog(names) ==
    LET kept == SelectSeq(names, IsMigrationName)
    IN [files |-> SortByTimestamp([k \in 1..Len(kept) |-> Descriptor(kept[k])]),
        warned |-> {names[k] : k \in {j \in 1..Len(names) : WarnedName(names[j])}}]

\* ------------------------------------------- the generator, in full
\* String(n): the decimal digits of a natural number.
RECURSIVE ToDigits(_)
ToDigits(n) ==
    LET d == <<"0", "1", "2", "3", "4", "5", "6", "7", "8", "9">>[(n % 10) + 1]
    IN IF n < 10 THEN <<d>> ELSE ToDigits(n \div 10) \o <<d>>

\* String(n).padStart(2, '0').
PadStart2(n) == IF Len(ToDigits(n)) < 2 THEN <<"0">> \o ToDigits(n) ELSE ToDigits(n)

\* Mutant: the month is taken as getMonth() gives it and not padded.
generateTimestampRaw(date) ==
    ToDigits(date.year) \o ToDigits(date.month) \o PadStart2(date.day)
        \o PadStart2(date.hour) \o PadStart2(date.minute) \o PadStart2(date.second)

\* generateTimestamp(), lines 20-30; date.month is getMonth(), 0 to 11.
generateTimestamp(date) ==
    ToDigits(date.year) \o PadStart2(date.month + 1) \o PadStart2(date.day)
        \o PadStart2(date.hour) \o PadStart2(date.minute) \o PadStart2(date.second)

\* toLowerCase() on the letters the names here are made of.
LowerChar(c) == CASE c = "T" -> "t" [] c = "U" -> "u" [] OTHER -> c
IsLowerAlnum(c) ==
    c \in {"a", "b", "c", "d", "e", "f", "g", "h", "i", "j", "k", "l", "m",
           "n", "o", "p", "q", "r", "s", "t", "u", "v", "w", "x", "y", "z"}
    \/ IsDigit(c)

\* .replace(/[^a-z0-9]+/g, '_'): every run of other characters becomes one _.
RECURSIVE ReplaceRuns(_, _)
ReplaceRuns(name, inRun) ==
    IF name = <<>> THEN <<>>
    ELSE IF IsLowerAlnum(Head(name))
         THEN <<Head(name)>> \o ReplaceRuns(Tail(name), FALSE)
         ELSE (IF inRun THEN <<>> ELSE <<"_">>) \o ReplaceRuns(Tail(name), TRUE)

\* .replace(/^_+|_+$/g, ''): the underscores at both ends go.
RECURSIVE TrimLeft(_)
TrimLeft(name) ==
    IF name # <<>> /\ Head(name) = "_" THEN TrimLeft(Tail(name)) ELSE name
RECURSIVE TrimRight(_)
TrimRight(name) ==
    IF name # <<>> /\ name[Len(name)] = "_"
    THEN TrimRight(SubSeq(name, 1, Len(name) - 1)) ELSE name

\* formatMigrationName(), lines 35-40.
formatMigrationName(name) ==
    TrimRight(TrimLeft(ReplaceRuns([k \in 1..Len(name) |-> LowerChar(name[k])],
                                   FALSE)))

\* generate(), line 261: `${timestamp}_${formattedName}.ts`.
GeneratedFileName(date, name) ==
    generateTimestamp(date) \o <<"_">> \o formatMigrationName(name) \o ExtTs

\* The arguments the generator is called with here: table, column and index
\* names, and column definitions; an optional argument left out is
\* undefined, which is falsy as the empty string is.
TableNames == {<<"t">>, <<"U", "-", "x">>}
ColumnName == <<"c">>
IndexName == <<"i">>
Omitted == <<>>
NoDefinition == [type |-> "undefined", allowNull |-> FALSE]
Definitions == {[type |-> "string", allowNull |-> TRUE],
                [type |-> "integer", allowNull |-> FALSE]}
Truthy(v) == v # Omitted /\ v # NoDefinition

\* generateColumnCode(), lines 189-236, for a definition with a type given
\* as a string and allowNull: Sequelize.<TYPE IN UPPER CASE>, allowNull.
generateColumnCode(definition) ==
    [type |-> CASE definition.type = "string" -> "STRING"
                [] definition.type = "integer" -> "INTEGER"
                [] OTHER -> definition.type,
     allowNull |-> definition.allowNull]

\* Lines 107-110 and 131-134: the column written when no definition is given.
DefaultColumnCode == [type |-> "STRING", allowNull |-> TRUE]

\* Lines 48-68: the columns written when createTableTemplate gets none.
DefaultColumns ==
    {[column |-> <<"i", "d">>, def |-> [type |-> "UUID", allowNull |-> FALSE]],
     [column |-> <<"c", "a">>, def |-> [type |-> "DATE", allowNull |-> FALSE]],
     [column |-> <<"u", "a">>, def |-> [type |-> "DATE", allowNull |-> FALSE]],
     [column |-> <<"d", "a">>, def |-> [type |-> "DATE", allowNull |-> TRUE]]}

\* A template is what its up and its down call, with the kind of template
\* and whether the optional argument (columns, definition, index name) was
\* given. A call of queryInterface as the template text spells it. arg is the text
\* of the index-name argument, where there is one.
Call(fn, t, c, def, cols, arg) ==
    [table |-> t, column |-> c, def |-> def, fn |-> fn, arg |-> arg,
     columns |-> cols]
NoColumns == {}
NoArg == <<>>

\* createTableTemplate(), lines 45-81.
createTableTemplate(tableName, definition) ==
    LET columns == IF Truthy(definition)
                   THEN {[column |-> ColumnName,
                          def |-> generateColumnCode(definition)]}
                   ELSE DefaultColumns
    IN [kind |-> "createTable", given |-> Truthy(definition),
        up |-> Call("createTable", tableName, Omitted, NoDefinition, columns, NoArg),
        down |-> Call("dropTable", tableName, Omitted, NoDefinition, NoColumns, NoArg)]

\* addColumnTemplate(), lines 86-99.
addColumnTemplate(tableName, columnName, columnDefinition) ==
    [kind |-> "addColumn", given |-> TRUE,
     up |-> Call("addColumn", tableName, columnName,
                 generateColumnCode(columnDefinition), NoColumns, NoArg),
     down |-> Call("removeColumn", tableName, columnName, NoDefinition,
                   NoColumns, NoArg)]

\* dropColumnTemplate(), lines 104-122.
dropColumnTemplate(tableName, columnName, columnDefinition) ==
    LET columnCode == IF Truthy(columnDefinition)
                      THEN generateColumnCode(columnDefinition)
                      ELSE DefaultColumnCode
    IN [kind |-> "dropColumn", given |-> Truthy(columnDefinition),
        up |-> Call("removeColumn", tableName, columnName, NoDefinition,
                    NoColumns, NoArg),
        down |-> Call("addColumn", tableName, columnName, columnCode,
                      NoColumns, NoArg)]

\* changeColumnTemplate(), lines 127-146.
changeColumnTemplate(tableName, columnName, newDefinition, oldDefinition) ==
    LET oldColumnCode == IF Truthy(oldDefinition)
                         THEN generateColumnCode(oldDefinition)
                         ELSE DefaultColumnCode
    IN [kind |-> "changeColumn", given |-> Truthy(oldDefinition),
        up |-> Call("changeColumn", tableName, columnName,
                    generateColumnCode(newDefinition), NoColumns, NoArg),
        down |-> Call("changeColumn", tableName, columnName, oldColumnCode,
                      NoColumns, NoArg)]

\* Line 152: indexName ? `'${indexName}'` : 'undefined', a piece of text.
UndefinedCode == <<"u", "n", "d", "e", "f", "i", "n", "e", "d">>
indexNameCode(indexName) ==
    IF Truthy(indexName) THEN <<"'">> \o indexName \o <<"'">> ELSE UndefinedCode
\* JSON.stringify(columns), as far as the text is told from the other two.
ColumnsCode == <<"[", "]">>

\* addIndexTemplate(), lines 151-168, for one column and no options: line
\* 165 writes ${indexNameCode || JSON.stringify(columns)}.
addIndexTemplate(tableName, columnName, indexName) ==
    [kind |-> "addIndex", given |-> Truthy(indexName),
     up |-> Call("addIndex", tableName, columnName, NoDefinition, NoColumns,
                 indexNameCode(indexName)),
     down |-> Call("removeIndex", tableName, columnName, NoDefinition, NoColumns,
                   IF Truthy(indexNameCode(indexName))
                   THEN indexNameCode(indexName)
                   ELSE ColumnsCode)]

\* genericTemplate(), lines 173-184: up and down with nothing in them.
genericTemplate ==
    [kind |-> "generic", given |-> TRUE,
     up |-> Call("nothing", Omitted, Omitted, NoDefinition, NoColumns, NoArg),
     down |-> Call("nothing", Omitted, Omitted, NoDefinition, NoColumns, NoArg)]

\* An abstract schema: the tables, their columns and their indexes.
EmptySchema == [cols |-> {}, tables |-> {}, idx |-> {}]
HasColumn(s, t, c) == \E x \in s.cols : x.table = t /\ x.column = c

\* The value the text of an index-name argument evaluates to: undefined, a
\* string, or the array of columns.
EvalArg(arg, c) ==
    IF arg = UndefinedCode THEN [v |-> <<>>, kind |-> "undefined"]
    ELSE IF Head(arg) = "'"
         THEN [v |-> SubSeq(arg, 2, Len(arg) - 1), kind |-> "string"]
         ELSE [v |-> c, kind |-> "array"]

\* The name Sequelize gives an index that gets none: <table>_<columns>.
DefaultIndexName(t, c) == t \o <<"_">> \o c

\* What the call does to the schema, and whether it returns (ok) or throws;
\* a call that throws leaves the schema as it was. createTable is CREATE
\* TABLE IF NOT EXISTS, dropTable is DROP TABLE IF EXISTS; removeIndex with
\* undefined for the name throws a TypeError (it calls .join on it).
Apply(call, s) ==
    LET t == call.table
        c == call.column
        v == EvalArg(call.arg, c)
        Failed == [s |-> s, ok |-> FALSE]
        Fine(x) == [s |-> x, ok |-> TRUE]
    IN CASE call.fn = "nothing" -> Fine(s)
         [] call.fn = "createTable" ->
              IF t \in s.tables THEN Fine(s)
              ELSE Fine([s EXCEPT
                     !.tables = @ \cup {t},
                     !.cols = @ \cup {[table |-> t, column |-> x.column,
                                       def |-> x.def] : x \in call.columns}])
         [] call.fn = "dropTable" ->
              Fine([cols |-> {x \in s.cols : x.table # t},
                    tables |-> s.tables \ {t},
                    idx |-> {x \in s.idx : x.table # t}])
         [] call.fn = "addColumn" ->
              IF t \notin s.tables \/ HasColumn(s, t, c) THEN Failed
              ELSE Fine([s EXCEPT !.cols = @ \cup
                     {[table |-> t, column |-> c, def |-> call.def]}])
         [] call.fn = "removeColumn" ->
              IF ~HasColumn(s, t, c) THEN Failed
              ELSE Fine([s EXCEPT !.cols =
                     {x \in @ : ~(x.table = t /\ x.column = c)}])
         [] call.fn = "changeColumn" ->
              IF ~HasColumn(s, t, c) THEN Failed
              ELSE Fine([s EXCEPT !.cols =
                     {x \in @ : ~(x.table = t /\ x.column = c)}
                     \cup {[table |-> t, column |-> c, def |-> call.def]}])
         [] call.fn = "addIndex" ->
              LET name == IF v.kind = "string" THEN v.v ELSE DefaultIndexName(t, c)
              IN IF ~HasColumn(s, t, c) \/ [table |-> t, name |-> name] \in s.idx
                 THEN Failed
                 ELSE Fine([s EXCEPT !.idx = @ \cup {[table |-> t, name |-> name]}])
         [] call.fn = "removeIndex" ->
              IF v.kind = "undefined" THEN Failed
              ELSE LET name == IF v.kind = "string" THEN v.v
                               ELSE DefaultIndexName(t, c)
                   IN IF [table |-> t, name |-> name] \notin s.idx THEN Failed
                      ELSE Fine([s EXCEPT !.idx = @ \ {[table |-> t, name |-> name]}])

\* The schemas a generated migration is tried on: nothing, or a table with
\* the default columns and the column of the tests under some definition.
TableWith(t, extra) ==
    [cols |-> {[table |-> t, column |-> x.column, def |-> x.def] :
                 x \in DefaultColumns \cup extra},
     tables |-> {t},
     idx |-> {}]
StartSchemas ==
    {EmptySchema}
    \cup {TableWith(t, {}) : t \in TableNames}
    \cup {TableWith(t, {[column |-> ColumnName, def |-> generateColumnCode(d)]}) :
            t \in TableNames, d \in Definitions}

\* The moment the generator is first called: 5 January 2024, 14:07:09
\* (getMonth() is 0 in January).
StartDate == [year |-> 2024, month |-> 0, day |-> 5, hour |-> 14,
              minute |-> 7, second |-> 9]
NoCatalog == [files |-> <<>>, of |-> {}]
NoTrial == [kind |-> "none", given |-> TRUE,
            up |-> Call("nothing", Omitted, Omitted, NoDefinition, NoColumns, NoArg),
            down |-> Call("nothing", Omitted, Omitted, NoDefinition, NoColumns, NoArg),
            s0 |-> EmptySchema, s1 |-> EmptySchema, s2 |-> EmptySchema,
            downOk |-> TRUE]

\* ------------------------------------------------------------ the state
NoStep == [table |-> <<>>, schema |-> {}]
NoLast == [op |-> "none", result |-> "none"]
NoRun == [pend0 |-> <<>>, table0 |-> <<>>]
\* A migration module: which of the two functions it exports.
Complete == [up |-> TRUE, down |-> TRUE]

Init ==
    /\ tableExists = FALSE
    /\ table = <<>>
    /\ schema = {}
    /\ files \in SUBSET Ids
    /\ now = 0
    /\ pc = [p \in Procs |-> "idle"]
    /\ op = [p \in Procs |-> "none"]
    /\ todo = [p \in Procs |-> <<>>]
    /\ batch = [p \in Procs |-> 0]
    /\ txw = [p \in Procs |-> <<>>]
    /\ result = [p \in Procs |-> "none"]
    /\ pend0 = [p \in Procs |-> <<>>]
    /\ table0 = [p \in Procs |-> <<>>]
    /\ invoked = [p \in Procs |-> <<>>]
    /\ failed = [p \in Procs |-> NoFail]
    /\ thrown = [p \in Procs |-> "none"]
    /\ warned = [p \in Procs |-> {}]
    /\ step0 = [p \in Procs |-> NoStep]
    /\ last = NoLast
    /\ lastEmptied = 0
    /\ lastRun = NoRun
    /\ modules = [i \in Ids |-> Complete]
    /\ dir = <<>>
    /\ listing = NoListing
    /\ warns = {}
    /\ clock = StartDate
    /\ disk = {}
    /\ written = <<>>
    /\ catalog = NoCatalog
    /\ trial = NoTrial

AllIdle == \A q \in Procs : pc[q] = "idle"

\* The invocation ends: it returns (ok) or the error reaches the caller.
Finish(p, res) ==
    /\ pc' = [pc EXCEPT ![p] = "done"]
    /\ result' = [result EXCEPT ![p] = res]

\* ------------------------------------------------------------ migrate()
\* migrate(), line 581: await this.initialize().
MigrateStart(p) ==
    /\ pc[p] = "idle"
    /\ tableExists' = initialize(tableExists)
    /\ table' = initializeTable(tableExists, table)
    /\ pc' = [pc EXCEPT ![p] = "pending"]
    /\ op' = [op EXCEPT ![p] = "migrate"]
    /\ table0' = [table0 EXCEPT ![p] = table']
    /\ UNCHANGED <<auxVars, thrown, schema, envVars, todo, batch, txw, result, pend0,
                   invoked, failed, warned, step0, histVars>>

\* migrate(), lines 583-588: the pending list; return when it is empty.
MigratePending(p) ==
    /\ pc[p] = "pending"
    /\ LET pendingMigrations == getPendingMigrations(files, table)
       IN /\ todo' = [todo EXCEPT ![p] = pendingMigrations]
          /\ pend0' = [pend0 EXCEPT ![p] = pendingMigrations]
          /\ IF Len(pendingMigrations) = 0
             THEN Finish(p, "ok")
             ELSE /\ pc' = [pc EXCEPT ![p] = "batch"]
                  /\ UNCHANGED result
    /\ UNCHANGED <<auxVars, thrown, dbVars, envVars, op, batch, txw, table0, invoked, failed,
                   warned, step0, histVars>>

\* migrate(), line 590: const batch = await this.getNextBatch().
MigrateBatch(p) ==
    /\ pc[p] = "batch"
    /\ batch' = [batch EXCEPT ![p] = getNextBatch(table)]
    /\ pc' = [pc EXCEPT ![p] = "loop"]
    /\ UNCHANGED <<auxVars, thrown, dbVars, envVars, op, todo, txw, result, pend0, table0,
                   invoked, failed, warned, step0, histVars>>

\* ----------------------------------------------------------- rollback()
\* rollback(), line 605: await this.initialize().
RollbackStart(p) ==
    /\ pc[p] = "idle"
    /\ tableExists' = initialize(tableExists)
    /\ table' = initializeTable(tableExists, table)
    /\ pc' = [pc EXCEPT ![p] = "read"]
    /\ op' = [op EXCEPT ![p] = "rollback"]
    /\ table0' = [table0 EXCEPT ![p] = table']
    /\ UNCHANGED <<auxVars, thrown, schema, envVars, todo, batch, txw, result, pend0,
                   invoked, failed, warned, step0, histVars>>

\* rollback(), lines 607-620: read the records, return when there is none,
\* else keep the last batch reversed.
RollbackRead(p) ==
    /\ pc[p] = "read"
    /\ \E executedMigrations \in getExecutedMigrations(table) :
          IF Len(executedMigrations) = 0
          THEN /\ Finish(p, "ok")
               /\ UNCHANGED <<todo, pend0>>
          ELSE /\ todo' = [todo EXCEPT
                        ![p] = IdsOf(migrationsToRollback(executedMigrations))]
               /\ pend0' = [pend0 EXCEPT
                        ![p] = IdsOf(migrationsToRollback(executedMigrations))]
               /\ pc' = [pc EXCEPT ![p] = "loop"]
               /\ UNCHANGED result
    /\ UNCHANGED <<auxVars, thrown, dbVars, envVars, op, batch, txw, table0, invoked, failed,
                   warned, step0, histVars>>

\* ------------------------------------------------- the for-of loops
\* Mutant: a record without file ends the loop (break in place of going on).
LoopHeadBreak(p) ==
    /\ pc[p] = "loop"
    /\ IF Len(todo[p]) = 0
       THEN /\ Finish(p, "ok")
            /\ UNCHANGED <<todo, warned>>
       ELSE IF op[p] = "migrate" \/ Head(todo[p]) \in Range(getMigrationFiles(files))
       THEN /\ pc' = [pc EXCEPT ![p] = "begin"]
            /\ UNCHANGED <<todo, warned, result>>
       ELSE /\ warned' = [warned EXCEPT ![p] = @ \cup {Head(todo[p])}]
            /\ todo' = [todo EXCEPT ![p] = <<>>]
            /\ Finish(p, "ok")
    /\ UNCHANGED <<auxVars, thrown, dbVars, envVars, op, batch, txw, pend0, table0,
                   invoked, failed, step0, histVars>>

\* migrate(), lines 594-596, and rollback(), lines 622-629: the head of one
\* iteration. migrate() runs every pending migration; rollback() looks the
\* record's file up and warns and goes on when there is none.
LoopHead(p) ==
    /\ pc[p] = "loop"
    /\ IF Len(todo[p]) = 0
       THEN /\ Finish(p, "ok")
            /\ UNCHANGED <<todo, warned>>
       ELSE IF op[p] = "migrate" \/ Head(todo[p]) \in Range(getMigrationFiles(files))
       THEN /\ pc' = [pc EXCEPT ![p] = "begin"]
            /\ UNCHANGED <<todo, warned, result>>
       ELSE /\ warned' = [warned EXCEPT ![p] = @ \cup {Head(todo[p])}]
            /\ todo' = [todo EXCEPT ![p] = Tail(@)]
            /\ UNCHANGED <<pc, result>>
    /\ UNCHANGED <<auxVars, thrown, dbVars, envVars, op, batch, txw, pend0, table0, invoked,
                   failed, step0, histVars>>

\* ------------------------------------------------------- runMigration()
Direction(p) == IF op[p] = "migrate" THEN "up" ELSE "down"
Cur(p) == Head(todo[p])

\* A step throws: remember which, and go where the exception goes.
Throw(p, step, to) ==
    /\ failed' = [failed EXCEPT ![p] = [id |-> Cur(p), step |-> step]]
    /\ pc' = [pc EXCEPT ![p] = to]

\* Line 525: const transaction = await sequelize.transaction().
TxBegin(p) ==
    /\ pc[p] = "begin"
    /\ txw' = [txw EXCEPT ![p] = <<>>]
    /\ step0' = [step0 EXCEPT ![p] = [table |-> table, schema |-> schema]]
    /\ pc' = [pc EXCEPT ![p] = "load"]
    /\ UNCHANGED <<auxVars, thrown, dbVars, envVars, op, todo, batch, result, pend0, table0,
                   invoked, failed, warned, histVars>>

\* Mutant: only up is asked for.
loadMigrationUpOnly(m) == IF ~m.up THEN "error" ELSE "ok"

\* loadMigration(), lines 507-509: if (!migrationModule.up ||
\* !migrationModule.down) throw.
loadMigration(m) == IF ~m.up \/ ~m.down THEN "error" ELSE "ok"

\* Line 530: loadMigration() returns the module's up and down.
LoadOk(p) ==
    /\ pc[p] = "load"
    /\ loadMigration(modules[Cur(p)]) = "ok"
    /\ pc' = [pc EXCEPT ![p] = "exec"]
    /\ UNCHANGED <<auxVars, thrown, dbVars, envVars, op, todo, batch, txw, result, pend0,
                   table0, invoked, failed, warned, step0, histVars>>

\* Lines 507-517: loadMigration() throws (import fails, up or down missing).
LoadFails(p) ==
    /\ pc[p] = "load"
    /\ Throw(p, "load", "catch")
    /\ UNCHANGED <<auxVars, thrown, dbVars, envVars, op, todo, batch, txw, result, pend0,
                   table0, invoked, warned, step0, histVars>>

\* The schema after migration.up(context) / migration.down(context) of id:
\* context carries queryInterface, Sequelize and sequelize, not the
\* transaction, so the statements run outside it and take effect at once.
SchemaAfter(s, direction, id) ==
    IF direction = "up" THEN s \cup {id} ELSE s \ {id}

\* Mutant: an advisory lock per migration: up/down of id waits while another
\* invocation is between its up/down of id and the end of that step.
ExecOkExclusive(p) ==
    /\ pc[p] = "exec"
    /\ \A q \in Procs \ {p} :
         ~(pc[q] \in {"write", "commit", "catch"} /\ Cur(q) = Cur(p))
    /\ schema' = SchemaAfter(schema, Direction(p), Cur(p))
    /\ invoked' = [invoked EXCEPT ![p] = Append(@, Cur(p))]
    /\ pc' = [pc EXCEPT ![p] = "write"]
    /\ UNCHANGED <<auxVars, thrown, tableExists, table, envVars, op, todo, batch, txw, result,
                   pend0, table0, failed, warned, step0, histVars>>

\* Lines 539 and 554: await migration.up(context) / down(context) returns.
ExecOk(p) ==
    /\ pc[p] = "exec"
    /\ schema' = SchemaAfter(schema, Direction(p), Cur(p))
    /\ invoked' = [invoked EXCEPT ![p] = Append(@, Cur(p))]
    /\ pc' = [pc EXCEPT ![p] = "write"]
    /\ UNCHANGED <<auxVars, thrown, tableExists, table, envVars, op, todo, batch, txw, result,
                   pend0, table0, failed, warned, step0, histVars>>

\* Lines 539 and 554: up/down throws (its one statement fails).
ExecFails(p) ==
    /\ pc[p] = "exec"
    /\ invoked' = [invoked EXCEPT ![p] = Append(@, Cur(p))]
    /\ Throw(p, "exec", "catch")
    /\ UNCHANGED <<auxVars, thrown, dbVars, envVars, op, todo, batch, txw, result, pend0,
                   table0, warned, step0, histVars>>

\* Mutant: the batch of migrate() is not passed on; each row asks for its own.
NewRecordFreshBatch(id, b, t, at) ==
    [id |-> id, batch |-> getNextBatch(t), at |-> at]

\* Lines 545-550: the row of the INSERT; batch || (await getNextBatch()),
\* and executed_at: new Date(), which never reads less than it did before.
NewRecord(id, b, t, at) ==
    [id |-> id, batch |-> IF b # 0 THEN b ELSE getNextBatch(t), at |-> at]

\* Another transaction holds the row of id: it wrote it and has not ended.
\* The INSERT or DELETE of that row waits for it.
Locked(p, id) ==
    \E q \in Procs \ {p} : Len(txw[q]) > 0 /\ txw[q][1].rec.id = id

\* Mutant: the column id is no primary key; the INSERT of a second row with
\* the same id succeeds.
WriteOkNoKey(p) ==
    /\ pc[p] = "write"
    /\ ~Locked(p, Cur(p))
    /\ IF Direction(p) = "up"
       THEN \E date \in now..MaxTime :
                 /\ now' = date
                 /\ txw' = [txw EXCEPT ![p] =
                      <<[kind |-> "insert",
                         rec |-> [id |-> Cur(p), batch |-> batch[p],
                                  at |-> date]]>>]
       ELSE /\ txw' = [txw EXCEPT ![p] =
                 <<[kind |-> "delete", rec |-> [NoRec EXCEPT !.id = Cur(p)]]>>]
            /\ UNCHANGED now
    /\ pc' = [pc EXCEPT ![p] = "commit"]
    /\ UNCHANGED <<auxVars, thrown, dbVars, files, op, todo, batch, result, pend0,
                   table0, invoked, failed, warned, step0, histVars>>

\* Lines 542-552 and 557-564: the INSERT or the DELETE, { transaction }.
\* The INSERT of an id that has a row violates the primary key.
WriteOk(p) ==
    /\ pc[p] = "write"
    /\ ~Locked(p, Cur(p))
    /\ IF Direction(p) = "up"
       THEN /\ Cur(p) \notin RecIds(table)
            /\ \E date \in now..MaxTime :
                 /\ now' = date
                 /\ txw' = [txw EXCEPT ![p] =
                      <<[kind |-> "insert",
                         rec |-> NewRecord(Cur(p), batch[p], table, date)]>>]
       ELSE /\ txw' = [txw EXCEPT ![p] =
                 <<[kind |-> "delete", rec |-> [NoRec EXCEPT !.id = Cur(p)]]>>]
            /\ UNCHANGED now
    /\ pc' = [pc EXCEPT ![p] = "commit"]
    /\ UNCHANGED <<auxVars, thrown, dbVars, files, op, todo, batch, result, pend0, table0,
                   invoked, failed, warned, step0, histVars>>

\* The INSERT or the DELETE throws (duplicate key, value too long for the
\* column, connection lost).
WriteFails(p) ==
    /\ pc[p] = "write"
    /\ Throw(p, "write", "catch")
    /\ UNCHANGED <<auxVars, thrown, dbVars, envVars, op, todo, batch, txw, result, pend0,
                   table0, invoked, warned, step0, histVars>>

\* The table after the writes of a committed transaction.
ApplyWrites(t, w) ==
    IF Len(w) = 0 THEN t
    ELSE IF w[1].kind = "insert" THEN Append(t, w[1].rec)
    ELSE LET Keep(r) == r.id # w[1].rec.id IN SelectSeq(t, Keep)

\* Line 567: await transaction.commit() returns; the loop goes on.
CommitOk(p) ==
    /\ pc[p] = "commit"
    /\ table' = ApplyWrites(table, txw[p])
    /\ txw' = [txw EXCEPT ![p] = <<>>]
    /\ todo' = [todo EXCEPT ![p] = Tail(@)]
    /\ pc' = [pc EXCEPT ![p] = "loop"]
    /\ UNCHANGED <<auxVars, thrown, tableExists, schema, envVars, op, batch, result, pend0,
                   table0, invoked, failed, warned, step0, histVars>>

\* Line 567: the COMMIT throws; nothing of the transaction is kept.
CommitFails(p) ==
    /\ pc[p] = "commit"
    /\ Throw(p, "commit", "catch")
    /\ UNCHANGED <<auxVars, thrown, dbVars, envVars, op, todo, batch, txw, result, pend0,
                   table0, invoked, warned, step0, histVars>>

\* Mutant: the catch block rolls back and logs but does not rethrow.
CatchSwallow(p) ==
    /\ pc[p] = "catch"
    /\ txw' = [txw EXCEPT ![p] = <<>>]
    /\ todo' = [todo EXCEPT ![p] = Tail(@)]
    /\ pc' = [pc EXCEPT ![p] = "loop"]
    /\ UNCHANGED <<auxVars, thrown, dbVars, envVars, op, batch, result, pend0, table0,
                   invoked, failed, warned, step0, histVars>>

\* Line 571: await transaction.rollback() in the catch block. After a
\* commit() that threw the transaction is finished (Sequelize sets finished
\* in the finally of commit()) and rollback() throws "Transaction cannot be
\* rolled back because it has been finished"; otherwise rollback() resolves,
\* or throws itself (connection lost). When it throws, line 573 is not
\* reached and the error of rollback() is the one that leaves the catch.
rollbackThenThrow(step) ==
    IF step = "commit" THEN {"rollback"} ELSE {step, "rollback"}

\* Lines 570-574: await transaction.rollback(); throw error. The error leaves
\* the for-of loop and migrate()/rollback().
Catch(p) ==
    /\ pc[p] = "catch"
    /\ txw' = [txw EXCEPT ![p] = <<>>]
    /\ \E err \in rollbackThenThrow(failed[p].step) :
         thrown' = [thrown EXCEPT ![p] = err]
    /\ Finish(p, "error")
    /\ UNCHANGED <<auxVars, dbVars, envVars, op, todo, batch, pend0, table0, invoked,
                   failed, warned, step0, histVars>>

\* -------------------------------------------------------------- status()
\* status(), lines 637-647: initialize(), then the two lists.
status(fs, t) ==
    {[executed |-> e, pending |-> getPendingMigrations(fs, t)] :
        e \in getExecutedMigrations(t)}

Status(p) ==
    /\ pc[p] = "idle"
    /\ tableExists' = initialize(tableExists)
    /\ table' = initializeTable(tableExists, table)
    /\ last' = [op |-> "status", result |-> "ok"]
    /\ lastRun' = NoRun
    /\ UNCHANGED <<auxVars, thrown, schema, envVars, pc, op, todo, batch, txw, result,
                   pend0, table0, invoked, failed, warned, step0, lastEmptied>>

\* ------------------------------------------------ the end of an invocation
LastBatchOf(t) == SetMax({t[i].batch : i \in 1..Len(t)})
BatchesOf(t) == {t[i].batch : i \in 1..Len(t)}
Added(p) == {table[i] : i \in 1..Len(table)} \ {table0[p][i] : i \in 1..Len(table0[p])}

\* The caller has the result; the next invocation may start.
Return(p) ==
    /\ pc[p] = "done"
    /\ last' = [op |-> op[p], result |-> result[p]]
    /\ lastRun' = IF op[p] = "migrate"
                  THEN [pend0 |-> pend0[p], table0 |-> table0[p]]
                  ELSE NoRun
    /\ lastEmptied' =
         IF op[p] = "rollback"
         THEN IF table0[p] = <<>> THEN lastEmptied
              ELSE IF LastBatchOf(table0[p]) \notin BatchesOf(table)
                   THEN LastBatchOf(table0[p]) ELSE 0
         ELSE IF Added(p) # {} THEN 0 ELSE lastEmptied
    /\ pc' = [pc EXCEPT ![p] = "idle"]
    /\ op' = [op EXCEPT ![p] = "none"]
    /\ todo' = [todo EXCEPT ![p] = <<>>]
    /\ batch' = [batch EXCEPT ![p] = 0]
    /\ result' = [result EXCEPT ![p] = "none"]
    /\ pend0' = [pend0 EXCEPT ![p] = <<>>]
    /\ table0' = [table0 EXCEPT ![p] = <<>>]
    /\ invoked' = [invoked EXCEPT ![p] = <<>>]
    /\ failed' = [failed EXCEPT ![p] = NoFail]
    /\ thrown' = [thrown EXCEPT ![p] = "none"]
    /\ warned' = [warned EXCEPT ![p] = {}]
    /\ step0' = [step0 EXCEPT ![p] = NoStep]
    /\ UNCHANGED <<auxVars, dbVars, envVars, txw>>

\* ------------------------------------------------------- the environment
\* A migration file appears in migrationsPath (between invocations).
AddFile(i) ==
    /\ AllIdle
    /\ i \notin files
    /\ files' = files \cup {i}
    /\ last' = NoLast
    /\ lastRun' = NoRun
    /\ UNCHANGED <<auxVars, thrown, dbVars, now, pc, op, todo, batch, txw, result, pend0,
                   table0, invoked, failed, warned, step0, lastEmptied>>

\* A migration file is deleted from migrationsPath (between invocations).
RemoveFile(i) ==
    /\ AllIdle
    /\ i \in files
    /\ files' = files \ {i}
    /\ last' = NoLast
    /\ lastRun' = NoRun
    /\ UNCHANGED <<auxVars, thrown, dbVars, now, pc, op, todo, batch, txw, result, pend0,
                   table0, invoked, failed, warned, step0, lastEmptied>>

\* ------------------------------------------------------ specifications
\* One invocation at a time: the caller awaits migrate(), rollback() or
\* status() before it calls the next.
Next ==
    \/ \E p \in Callers : AllIdle /\ MigrateStart(p)
    \/ \E p \in Callers : AllIdle /\ RollbackStart(p)
    \/ \E p \in Callers : AllIdle /\ Status(p)
    \/ \E p \in Callers : MigratePending(p)
    \/ \E p \in Callers : MigrateBatch(p)
    \/ \E p \in Callers : RollbackRead(p)
    \/ \E p \in Callers : LoopHead(p)
    \/ \E p \in Callers : TxBegin(p)
    \/ \E p \in Callers : LoadOk(p)
    \/ \E p \in Callers : LoadFails(p)
    \/ \E p \in Callers : ExecOk(p)
    \/ \E p \in Callers : ExecFails(p)
    \/ \E p \in Callers : WriteOk(p)
    \/ \E p \in Callers : WriteFails(p)
    \/ \E p \in Callers : CommitOk(p)
    \/ \E p \in Callers : CommitFails(p)
    \/ \E p \in Callers : Catch(p)
    \/ \E p \in Callers : Return(p)
    \/ \E i \in Ids : AddFile(i)
    \/ \E i \in Ids : RemoveFile(i)

Spec == Init /\ [][Next]_vars

\* Two operator processes, each with its own MigrationRunner, on one
\* database and one migrationsPath, both calling migrate(): nothing keeps an
\* invocation of one from starting while the other runs. The files do not
\* change meanwhile.
NextConc ==
    \/ \E p \in Procs : MigrateStart(p)
    \/ \E p \in Procs : MigratePending(p)
    \/ \E p \in Procs : MigrateBatch(p)
    \/ \E p \in Procs : LoopHead(p)
    \/ \E p \in Procs : TxBegin(p)
    \/ \E p \in Procs : LoadOk(p)
    \/ \E p \in Procs : ExecOk(p)
    \/ \E p \in Procs : WriteOk(p)
    \/ \E p \in Procs : WriteFails(p)
    \/ \E p \in Procs : CommitOk(p)
    \/ \E p \in Procs : Catch(p)
    \/ \E p \in Procs : Return(p)

SpecConc == Init /\ [][NextConc]_vars

\* The same two processes while migration files arrive: a file is written
\* into migrationsPath (generated, merged, deployed) at any moment, also
\* between the start of one invocation and the start of the other.
NewFile(i) ==
    /\ i \notin files
    /\ files' = files \cup {i}
    /\ UNCHANGED <<auxVars, thrown, dbVars, now, pc, op, todo, batch, txw, result, pend0,
                   table0, invoked, failed, warned, step0, histVars>>

InitConcFiles == Init /\ files = {MaxId - 1}

NextConcFiles ==
    \/ NextConc
    \/ \E i \in Ids : NewFile(i)

SpecConcFiles == InitConcFiles /\ [][NextConcFiles]_vars

\* Two operator processes both calling rollback() on a database where
\* migrate() has applied every file: the first MaxId - 1 in batch 1, the last
\* in batch 1 or in a batch of its own.
InitApplied ==
    /\ tableExists = TRUE
    /\ table \in {[i \in Ids |-> [id |-> i,
                                  batch |-> IF i < MaxId THEN 1 ELSE b,
                                  at |-> 0]] : b \in {1, 2}}
    /\ schema = Ids
    /\ files = Ids
    /\ now = 0
    /\ pc = [p \in Procs |-> "idle"]
    /\ op = [p \in Procs |-> "none"]
    /\ todo = [p \in Procs |-> <<>>]
    /\ batch = [p \in Procs |-> 0]
    /\ txw = [p \in Procs |-> <<>>]
    /\ result = [p \in Procs |-> "none"]
    /\ pend0 = [p \in Procs |-> <<>>]
    /\ table0 = [p \in Procs |-> <<>>]
    /\ invoked = [p \in Procs |-> <<>>]
    /\ failed = [p \in Procs |-> NoFail]
    /\ thrown = [p \in Procs |-> "none"]
    /\ warned = [p \in Procs |-> {}]
    /\ step0 = [p \in Procs |-> NoStep]
    /\ last = NoLast
    /\ lastEmptied = 0
    /\ lastRun = NoRun
    /\ modules = [i \in Ids |-> Complete]
    /\ dir = <<>>
    /\ listing = NoListing
    /\ warns = {}
    /\ clock = StartDate
    /\ disk = {}
    /\ written = <<>>
    /\ catalog = NoCatalog
    /\ trial = NoTrial

NextConcRollback ==
    \/ \E p \in Procs : RollbackStart(p)
    \/ \E p \in Procs : RollbackRead(p)
    \/ \E p \in Procs : LoopHead(p)
    \/ \E p \in Procs : TxBegin(p)
    \/ \E p \in Procs : LoadOk(p)
    \/ \E p \in Procs : ExecOk(p)
    \/ \E p \in Procs : WriteOk(p)
    \/ \E p \in Procs : CommitOk(p)
    \/ \E p \in Procs : Return(p)

SpecConcRollback == InitApplied /\ [][NextConcRollback]_vars

\* A migration file is rewritten between invocations: it exports up, down,
\* both or neither.
EditModule(i, m) ==
    /\ AllIdle
    /\ modules[i] # m
    /\ modules' = [modules EXCEPT ![i] = m]
    /\ last' = NoLast
    /\ lastRun' = NoRun
    /\ UNCHANGED <<dir, listing, warns, genVars, thrown, dbVars, envVars, pc, op, todo, batch,
                   txw, result, pend0, table0, invoked, failed, warned, step0,
                   lastEmptied>>

\* One invocation at a time over files that are all there and whose exports
\* change between invocations; of the steps only the load fails.
InitLoad == Init /\ files = Ids

NextLoad ==
    \/ \E p \in Callers : AllIdle /\ MigrateStart(p)
    \/ \E p \in Callers : AllIdle /\ RollbackStart(p)
    \/ \E p \in Callers : MigratePending(p)
    \/ \E p \in Callers : MigrateBatch(p)
    \/ \E p \in Callers : RollbackRead(p)
    \/ \E p \in Callers : LoopHead(p)
    \/ \E p \in Callers : TxBegin(p)
    \/ \E p \in Callers : LoadOk(p)
    \/ \E p \in Callers : LoadFails(p)
    \/ \E p \in Callers : ExecOk(p)
    \/ \E p \in Callers : WriteOk(p)
    \/ \E p \in Callers : CommitOk(p)
    \/ \E p \in Callers : Catch(p)
    \/ \E p \in Callers : Return(p)
    \/ \E i \in Ids, m \in [up : BOOLEAN, down : BOOLEAN] : EditModule(i, m)

SpecLoad == InitLoad /\ [][NextLoad]_vars

\* ------------------------------------------- the catalog, name by name
engineVars == <<tableExists, table, schema, files, now, pc, op, todo, batch,
                txw, result, pend0, table0, invoked, failed, thrown, warned,
                step0, last, lastEmptied, lastRun, modules>>

\* A file of some name is put into migrationsPath.
AddName(n) ==
    /\ Len(dir) < MaxDir
    /\ \A k \in 1..Len(dir) : FileName(dir[k]) # FileName(n)
    /\ \E at \in 1..(Len(dir) + 1) :
         dir' = SubSeq(dir, 1, at - 1) \o <<n>> \o SubSeq(dir, at, Len(dir))
    /\ UNCHANGED <<engineVars, genVars, listing, warns>>

\* getMigrationFiles() is called: readdir(), the loop, the sort.
ListCatalog ==
    /\ LET names == [k \in 1..Len(dir) |-> FileName(dir[k])]
       IN /\ listing' = [files |-> readCatalog(names).files, of |-> dir]
          /\ warns' = readCatalog(names).warned
    /\ UNCHANGED <<engineVars, genVars, dir>>

InitCatalog == Init /\ files = {}

NextCatalog ==
    \/ \E n \in NameParts : AddName(n)
    \/ ListCatalog

SpecCatalog == InitCatalog /\ [][NextCatalog]_vars

\* ------------------------------------------------- MigrationGenerator
\* The pieces of the names generateCreateTable() and the like hand to
\* generate(), lines 280-313.
CreatePrefix == <<"c", "r", "e", "a", "t", "e", "_">>
TableSuffix == <<"_", "t", "a", "b", "l", "e">>
AddPrefix == <<"a", "d", "d", "_">>
ToInfix == <<"_", "t", "o", "_">>
DropPrefix == <<"d", "r", "o", "p", "_">>
FromInfix == <<"_", "f", "r", "o", "m", "_">>
ChangePrefix == <<"c", "h", "a", "n", "g", "e", "_">>
InInfix == <<"_", "i", "n", "_">>
AddIndexPrefix == <<"a", "d", "d", "_", "i", "n", "d", "e", "x", "_">>

\* A second passes.
GenTick ==
    /\ clock.second < StartDate.second + MaxTick
    /\ clock' = [clock EXCEPT !.second = @ + 1]
    /\ UNCHANGED <<engineVars, dir, listing, warns, disk, written, catalog, trial>>

\* generate(name, template), lines 254-273: writeFile() creates the file or
\* replaces the one of that name.
generate(name, template) ==
    /\ Len(written) < MaxGen
    /\ LET filename == GeneratedFileName(clock, name)
       IN /\ disk' = {f \in disk : f.filename # filename}
                       \cup {[filename |-> filename, content |-> template]}
          /\ written' = Append(written, filename)
    /\ UNCHANGED <<engineVars, dir, listing, warns, clock, catalog, trial>>

\* generateCreateTable(), lines 278-281.
generateCreateTable(tableName, columns) ==
    generate(CreatePrefix \o tableName \o TableSuffix,
             createTableTemplate(tableName, columns))

\* generateAddColumn(), lines 286-289.
generateAddColumn(tableName, columnName, columnDefinition) ==
    generate(AddPrefix \o columnName \o ToInfix \o tableName,
             addColumnTemplate(tableName, columnName, columnDefinition))

\* generateDropColumn(), lines 294-297.
generateDropColumn(tableName, columnName, columnDefinition) ==
    generate(DropPrefix \o columnName \o FromInfix \o tableName,
             dropColumnTemplate(tableName, columnName, columnDefinition))

\* generateChangeColumn(), lines 302-305.
generateChangeColumn(tableName, columnName, newDefinition, oldDefinition) ==
    generate(ChangePrefix \o columnName \o InInfix \o tableName,
             changeColumnTemplate(tableName, columnName, newDefinition,
                                  oldDefinition))

\* generateAddIndex(), lines 310-314, for one column.
generateAddIndex(tableName, columnName, indexName) ==
    generate(AddIndexPrefix
               \o (IF Truthy(indexName) THEN indexName ELSE columnName)
               \o ToInfix \o tableName,
             addIndexTemplate(tableName, columnName, indexName))

\* generateGeneric(), lines 319-322.
generateGeneric(name) == generate(name, genericTemplate)

\* getMigrationFiles() over the generated files, in whatever order readdir()
\* gives their names.
ListGenerated ==
    /\ LET names == {f.filename : f \in disk}
           n == Cardinality(names)
       IN \E order \in [1..n -> names] :
            /\ \A i, j \in 1..n : i # j => order[i] # order[j]
            /\ catalog' = [files |-> readCatalog(order).files, of |-> names]
    /\ UNCHANGED <<engineVars, dir, listing, warns, clock, disk, written, trial>>

\* A generated migration is loaded and tried on a schema its up applies to:
\* up, then down.
TryMigration(f, s0) ==
    /\ f \in disk
    /\ Apply(f.content.up, s0).ok
    /\ LET s1 == Apply(f.content.up, s0).s
       IN trial' = [kind |-> f.content.kind, given |-> f.content.given,
                    up |-> f.content.up, down |-> f.content.down,
                    s0 |-> s0, s1 |-> s1,
                    s2 |-> Apply(f.content.down, s1).s,
                    downOk |-> Apply(f.content.down, s1).ok]
    /\ UNCHANGED <<engineVars, dir, listing, warns, clock, disk, written, catalog>>

FirstTable == <<"t">>

InitGenerator == Init /\ files = {}

NextGenerator ==
    \/ GenTick
    \/ \E t \in TableNames, d \in Definitions \cup {NoDefinition} :
         generateCreateTable(t, d)
    \/ \E d \in Definitions : generateAddColumn(FirstTable, ColumnName, d)
    \/ \E d \in Definitions \cup {NoDefinition} :
         generateDropColumn(FirstTable, ColumnName, d)
    \/ \E new \in Definitions, old \in Definitions \cup {NoDefinition} :
         generateChangeColumn(FirstTable, ColumnName, new, old)
    \/ \E i \in {IndexName, Omitted} :
         generateAddIndex(FirstTable, ColumnName, i)
    \/ \E name \in {<<"a">>, <<"b">>} : generateGeneric(name)
    \/ ListGenerated
    \/ \E f \in disk, s0 \in StartSchemas : TryMigration(f, s0)

SpecGenerator == InitGenerator /\ [][NextGenerator]_vars

\* =============================================================== claims
Done(p, o) == pc[p] = "done" /\ op[p] = o
Rows(t) == {t[i] : i \in 1..Len(t)}
\* Position of the record of id in t (0: none).
PosOf(t, id) == SetMax({i \in 1..Len(t) : t[i].id = id})

\* C1: when the up of pk throws, migrate() ends with the error, the pending
\* migrations before pk have a record, pk has none, and those after pk were
\* never invoked and have no record.
C1_AbortOnFailingUp ==
    \A p \in Procs :
        (Done(p, "migrate") /\ failed[p].step = "exec") =>
            /\ result[p] = "error"
            /\ \A i \in Range(pend0[p]) :
                 /\ i < failed[p].id => i \in RecIds(table)
                 /\ i = failed[p].id => i \notin RecIds(table)
                 /\ i > failed[p].id =>
                      i \notin RecIds(table) /\ i \notin Range(invoked[p])

C1_Witness ==
    \E p \in Procs :
        /\ Done(p, "migrate")
        /\ failed[p] = [id |-> 2, step |-> "exec"]
        /\ pend0[p] = <<1, 2, 3>>

\* C2: when the up of a pending migration B is about to run, every pending
\* migration A of this run with A.id < B.id has its record committed.
C2_CommittedBeforeNextUp ==
    \A p \in Procs :
        (op[p] = "migrate" /\ pc[p] \in {"begin", "load", "exec"}) =>
            \A a \in Range(pend0[p]) :
                a < Cur(p) => a \in RecIds(table) /\ a \in Range(invoked[p])

C2_Witness ==
    \E p \in Procs :
        /\ op[p] = "migrate"
        /\ pc[p] = "exec"
        /\ Cur(p) = 3
        /\ pend0[p] = <<1, 2, 3>>

\* C3: between invocations, a record with id X exists if and only if the
\* schema effect of X's up is present.
C3_RecordIffApplied == AllIdle => RecIds(table) = schema

\* C4: when a step fails, the database (schema and tracking table) is as it
\* was before the step.
C4_FailedStepLeavesNoTrace ==
    \A p \in Procs :
        (pc[p] = "done" /\ result[p] = "error") =>
            schema = step0[p].schema /\ table = step0[p].table

\* C5 as stated: after rollback() emptied the highest batch, the next
\* migrate() that applies a migration uses a batch number greater than the
\* rolled-back one.
C5_BatchNeverReused ==
    \A p \in Procs :
        (Done(p, "migrate") /\ lastEmptied # 0) =>
            \A r \in Added(p) : r.batch > lastEmptied

\* C5 amended: after rollback() emptied the highest batch, the next migrate()
\* that applies a migration uses the rolled-back batch's number again, which
\* is greater than every batch number still recorded when it started.
C5_BatchAboveRecorded ==
    \A p \in Procs :
        (Done(p, "migrate") /\ lastEmptied # 0) =>
            \A r \in Added(p) :
                r.batch = lastEmptied /\ r.batch > LastBatchOf(table0[p])

C5_Witness ==
    \E p \in Procs :
        /\ Done(p, "migrate")
        /\ lastEmptied = 2
        /\ Added(p) # {}

\* C6 as stated: a rollback() that returns successfully has removed exactly
\* the records of the highest batch present when it started.
C6_RemovesLastBatch ==
    \A p \in Procs :
        (Done(p, "rollback") /\ result[p] = "ok") =>
            Rows(table) =
                {r \in Rows(table0[p]) : r.batch # LastBatchOf(table0[p])}

\* C6 amended: a rollback() that returns successfully has removed exactly
\* the records of the highest batch whose id has a migration file; the
\* records of that batch without a file and every record of a lower batch
\* are left unchanged.
C6_RemovesLastBatchWithFile ==
    \A p \in Procs :
        (Done(p, "rollback") /\ result[p] = "ok") =>
            LET Kept(r) == r.batch # LastBatchOf(table0[p]) \/ r.id \notin files
            IN table = SelectSeq(table0[p], Kept)

C6_Witness ==
    \E p \in Procs :
        /\ Done(p, "rollback")
        /\ result[p] = "ok"
        /\ Len(table0[p]) = 3
        /\ Len(table) = 1
        /\ Len(invoked[p]) = 2

\* C7: when the down of a record A of the last batch is about to run, every
\* record of that batch applied after A (and having a file) is removed.
C7_ReverseOfApplication ==
    \A p \in Procs :
        (op[p] = "rollback" /\ pc[p] \in {"begin", "load", "exec"}) =>
            \A r \in Rows(table0[p]) :
                ( /\ r.batch = LastBatchOf(table0[p])
                  /\ r.id \in files
                  /\ PosOf(table0[p], r.id) > PosOf(table0[p], Cur(p)) )
                => r.id \notin RecIds(table)

\* C8 as stated: the ids of status().executed and status().pending are
\* disjoint and their union is the set of ids of the catalog listing.
C8_Partition ==
    \A st \in status(files, table) :
        /\ Range(IdsOf(st.executed)) \cap Range(st.pending) = {}
        /\ Range(IdsOf(st.executed)) \cup Range(st.pending)
             = Range(getMigrationFiles(files))

\* C8 amended: the ids of status().executed and status().pending are
\* disjoint, pending is the catalog listing without the executed ids, and
\* their union is the catalog listing whenever every record has a file.
C8_PartitionOfKnown ==
    \A st \in status(files, table) :
        LET ex == Range(IdsOf(st.executed))
            pe == Range(st.pending)
            cat == Range(getMigrationFiles(files))
        IN /\ ex \cap pe = {}
           /\ pe = cat \ ex
           /\ ex \cup pe = cat \cup RecIds(table)
           /\ RecIds(table) \subseteq cat => ex \cup pe = cat

C8_Witness ==
    /\ AllIdle
    /\ RecIds(table) = {1, 2}
    /\ files = {2, 3}

\* C9 as stated: a migrate() that follows a migrate() with no change to the
\* files in between calls no up and leaves the records as they were.
C9_SecondMigrateNoOp ==
    \A p \in Procs :
        (Done(p, "migrate") /\ last.op = "migrate") =>
            invoked[p] = <<>> /\ table = table0[p]

\* C9 amended: a migrate() that follows a migrate() that returned
\* successfully, with no change to the files in between, calls no up, writes
\* no record and leaves the records as they were.
C9_MigrateAfterSuccessNoOp ==
    \A p \in Procs :
        (Done(p, "migrate") /\ last = [op |-> "migrate", result |-> "ok"]) =>
            /\ invoked[p] = <<>>
            /\ table = table0[p]
            /\ result[p] = "ok"

C9_Witness ==
    \E p \in Procs :
        /\ Done(p, "migrate")
        /\ last = [op |-> "migrate", result |-> "ok"]
        /\ Len(table) = 3

\* C10: the records written by one migrate() carry one batch number, the
\* highest batch recorded when the invocation started plus one.
C10_OneBatchPerRun ==
    \A p \in Procs :
        op[p] = "migrate" =>
            \A r \in Added(p) : r.batch = LastBatchOf(table0[p]) + 1

C10_Witness ==
    \E p \in Procs :
        /\ Done(p, "migrate")
        /\ Cardinality(Added(p)) = 2
        /\ table0[p] # <<>>

\* C11: pending() is the catalog listing without the descriptors whose id has
\* a record: ascending by id, none omitted, none twice.
C11_PendingIsCatalogMinusApplied ==
    LET pe == getPendingMigrations(files, table)
    IN /\ Range(pe) = files \ RecIds(table)
       /\ \A i, j \in 1..Len(pe) : i < j => pe[i] < pe[j]

C11_Witness ==
    /\ files = {1, 2, 3}
    /\ RecIds(table) = {2}
    /\ getPendingMigrations(files, table) = <<1, 3>>

\* C12: a successful migrate() that applied a migration, followed at once by
\* a successful rollback(), leaves the records and the pending list as they
\* were before the migrate().
C12_MigrateThenRollback ==
    \A p \in Procs :
        ( /\ Done(p, "rollback")
          /\ result[p] = "ok"
          /\ last = [op |-> "migrate", result |-> "ok"]
          /\ lastRun.pend0 # <<>> )
        => /\ table = lastRun.table0
           /\ getPendingMigrations(files, table) = lastRun.pend0

C12_Witness ==
    \E p \in Procs :
        /\ Done(p, "rollback")
        /\ result[p] = "ok"
        /\ last = [op |-> "migrate", result |-> "ok"]
        /\ lastRun.pend0 = <<2, 3>>
        /\ lastRun.table0 # <<>>
        /\ Len(invoked[p]) = 2

\* C13: a record of the last batch whose id has no file gets a warning, no
\* down and keeps its row, and rollback() goes on with the other records.
C13_MissingFileSkipped ==
    \A p \in Procs :
        op[p] = "rollback" =>
            /\ \A i \in warned[p] :
                 /\ i \notin files
                 /\ i \notin Range(invoked[p])
                 /\ i \in RecIds(table)
            /\ (pc[p] = "done" /\ result[p] = "ok") =>
                 \A i \in Range(pend0[p]) :
                     IF i \in files THEN i \in Range(invoked[p])
                                    ELSE i \in warned[p]

C13_Witness ==
    \E p \in Procs :
        /\ Done(p, "rollback")
        /\ result[p] = "ok"
        /\ pend0[p] = <<2, 1>>
        /\ warned[p] = {2}
        /\ invoked[p] = <<1>>

\* C14 as stated: every error kind reaches the caller as an error; an
\* invocation that returns successfully has warned about nothing and has
\* applied, or reversed, the whole batch it worked on.
C14_NoSilentPartialBatch ==
    \A p \in Procs :
        (pc[p] = "done" /\ result[p] = "ok") =>
            /\ warned[p] = {}
            /\ op[p] = "migrate" => Range(pend0[p]) \subseteq RecIds(table)
            /\ op[p] = "rollback" => Range(pend0[p]) \cap RecIds(table) = {}

\* C14 amended: a step that throws (load, up/down, insert/delete, commit)
\* reaches the caller as an error, and a migrate() that returns successfully
\* has recorded every pending migration; a missing file at rollback is only
\* warned about, and a rollback() that returns successfully has removed the
\* records of the batch that have a file and kept exactly the warned ones.
C14_ThrownStepsReachCaller ==
    \A p \in Procs :
        pc[p] = "done" =>
            /\ failed[p].step # "none" => result[p] = "error"
            /\ (result[p] = "ok" /\ op[p] = "migrate") =>
                 Range(pend0[p]) \subseteq RecIds(table)
            /\ (result[p] = "ok" /\ op[p] = "rollback") =>
                 Range(pend0[p]) \cap RecIds(table) = warned[p]

C14_Witness ==
    \E p \in Procs :
        /\ Done(p, "rollback")
        /\ result[p] = "error"
        /\ failed[p].step = "exec"
        /\ Len(invoked[p]) = 2

\* C15: with two processes in migrate(), no two rows share an id; an INSERT
\* that is pending in a transaction is never one of an id that has a row, and
\* the process whose INSERT threw ends with the error, that migration being
\* the last it applied and the rest of its list untouched.
C15_NoDuplicateRecord ==
    /\ \A i, j \in 1..Len(table) : i # j => table[i].id # table[j].id
    /\ \A p \in Procs :
         /\ (pc[p] = "commit" /\ op[p] = "migrate") =>
              txw[p][1].rec.id \notin RecIds(table)
         /\ (Done(p, "migrate") /\ failed[p].step = "write") =>
              /\ result[p] = "error"
              /\ invoked[p][Len(invoked[p])] = failed[p].id
              /\ Head(todo[p]) = failed[p].id
              /\ \A i \in Range(todo[p]) :
                   i > failed[p].id => i \notin Range(invoked[p])

C15_Witness ==
    \E p, q \in Procs :
        /\ p # q
        /\ Done(p, "migrate")
        /\ failed[p] = [id |-> 2, step |-> "write"]
        /\ 2 \in RecIds(table)
        /\ op[q] = "migrate"
        /\ 2 \in Range(invoked[q])
        /\ pend0[p] = <<1, 2, 3>>

\* The names of the files getMigrationFiles() read that are put together as
\* <14 digits>_<slug>.<ts|js>.
WellFormed(n) ==
    /\ Len(n.stamp) = IdWidth
    /\ \A i \in 1..Len(n.stamp) : n.stamp[i] \in {"0", "1", "2"}
    /\ n.sep = "_"
    /\ n.slug # <<>>
    /\ n.ext \in {ExtTs, ExtJs}
ListedRight ==
    LET read == listing.of
        good == {k \in 1..Len(read) : WellFormed(read[k])}
        out == listing.files
    IN /\ Len(out) = Cardinality(good)
       /\ {out[i] : i \in 1..Len(out)} =
            {[id |-> read[k].stamp, name |-> read[k].slug,
              filename |-> FileName(read[k])] : k \in good}
       /\ \A i, j \in 1..Len(out) :
            i < j => ~TimestampLess(out[j].id, out[i].id)

\* C16 as stated: the listing holds one descriptor per well-formed name, in
\* ascending id order, and every other name is skipped with a warning.
C16_CatalogWarnsEveryOther ==
    /\ ListedRight
    /\ warns = {FileName(listing.of[k]) :
                  k \in {j \in 1..Len(listing.of) : ~WellFormed(listing.of[j])}}

\* C16 amended: the listing holds one descriptor per well-formed name, in
\* ascending id order; a name ending in .ts or .js that is not well-formed is
\* skipped with a warning, any other name is skipped without one.
C16_CatalogWarnsScripts ==
    /\ ListedRight
    /\ warns = {FileName(listing.of[k]) :
                  k \in {j \in 1..Len(listing.of) :
                           /\ ~WellFormed(listing.of[j])
                           /\ listing.of[j].ext \in {ExtTs, ExtJs}}}

C16_Witness ==
    /\ Len(listing.of) = 2
    /\ Len(listing.files) = 1
    /\ listing.of[1].ext = ExtTs
    /\ ~WellFormed(listing.of[1])
    /\ WellFormed(listing.of[2])
    /\ Cardinality(warns) = 1

\* C17: a down step that got as far as its COMMIT has removed a record that
\* was there: the record of the migration it reverses is in the table.
C17_DownRemovesPresentRecord ==
    \A p \in Procs :
        (op[p] = "rollback" /\ pc[p] = "commit") => Cur(p) \in RecIds(table)

\* C18 as stated: status() has no side effect: a step of status() leaves the
\* tracking table, its records, the schema and the files as they were, also
\* when the tracking table does not exist.
C18_StatusChangesNothing ==
    [][\A p \in Procs :
         Status(p) => UNCHANGED <<tableExists, table, schema, files>>]_vars

\* C18 amended: a step of status() leaves the records, the schema and the
\* files as they were; it creates the tracking table, empty, when there is
\* none, and leaves it alone when there is one.
C18_StatusOnlyCreatesTable ==
    [][\A p \in Procs :
         Status(p) =>
           /\ UNCHANGED <<table, schema, files>>
           /\ tableExists'
           /\ tableExists => UNCHANGED tableExists
           /\ ~tableExists => table' = <<>>]_vars

C18_Witness ==
    /\ last = [op |-> "status", result |-> "ok"]
    /\ tableExists
    /\ table = <<>>
    /\ schema = {}
    /\ files = Ids

\* C19: initialize(), as migrate(), rollback() and status() call it, creates
\* the tracking table only when there is none, and a call that finds the
\* table leaves it and its records as they are.
C19_InitializeIdempotent ==
    [][\A p \in Procs :
         (MigrateStart(p) \/ RollbackStart(p) \/ Status(p)) =>
           /\ tableExists'
           /\ ~tableExists => table' = <<>>
           /\ tableExists => UNCHANGED <<tableExists, table>>]_vars

C19_Witness ==
    /\ last = [op |-> "status", result |-> "ok"]
    /\ tableExists
    /\ Len(table) = MaxId
    /\ BatchesOf(table) = {1, 2}

\* C20: a migration whose module lacks up or down is rejected at load: no
\* step gets past the load with such a module (neither up nor down runs, no
\* record is written or removed), and the invocation ends with the error,
\* the failed migration not executed and the table and the schema as they
\* were when the step began.
C20_IncompleteModuleRejected ==
    \A p \in Procs :
        /\ pc[p] \in {"exec", "write", "commit"} => modules[Cur(p)] = Complete
        /\ (pc[p] \in {"catch", "done"} /\ failed[p].step = "load") =>
             /\ pc[p] = "done" => result[p] = "error"
             /\ Cur(p) = failed[p].id
             /\ failed[p].id \notin Range(invoked[p])
             /\ txw[p] = <<>>
             /\ table = step0[p].table
             /\ schema = step0[p].schema

C20_Witness ==
    \E p \in Procs :
        /\ Done(p, "rollback")
        /\ failed[p].step = "load"
        /\ modules[failed[p].id] = [up |-> FALSE, down |-> TRUE]
        /\ result[p] = "error"
        /\ failed[p].id \in RecIds(table)

\* C23: when a down fails during rollback(), the error reaches the caller, no
\* further down is executed, the failing record and the records of the batch
\* applied before it are in the tracking table and those applied after it
\* are not.
C23_FailedDownSplitsBatch ==
    \A p \in Procs :
        (Done(p, "rollback") /\ failed[p].step = "exec") =>
            /\ result[p] = "error"
            /\ invoked[p][Len(invoked[p])] = failed[p].id
            /\ table = step0[p].table
            /\ \A r \in Rows(table0[p]) :
                 r.batch = LastBatchOf(table0[p]) =>
                   /\ r.id <= failed[p].id => r.id \in RecIds(table)
                   /\ r.id > failed[p].id => r.id \notin RecIds(table)

\* C24: in a sequential history the up of a migration runs only when the
\* migration is not applied: no up of X is executed while the effect of an
\* earlier up of X stands (no successful down of X since).
C24_UpNeverRepeated ==
    \A p \in Procs :
        (op[p] = "migrate" /\ pc[p] = "exec") => Cur(p) \notin schema

\* C26 as stated: a rollback() that found a record and returns successfully
\* leaves fewer records than it found.
C26_RollbackShrinksTable ==
    \A p \in Procs :
        (Done(p, "rollback") /\ result[p] = "ok" /\ table0[p] # <<>>) =>
            Len(table) < Len(table0[p])

\* C26 amended: a rollback() that returns successfully has removed exactly
\* the records of the last batch whose file is in the catalog: fewer records
\* are left when there is such a record, and none is removed when every
\* record of the last batch lacks its file.
C26_RollbackShrinksByFiled ==
    \A p \in Procs :
        (Done(p, "rollback") /\ result[p] = "ok" /\ table0[p] # <<>>) =>
            LET filed == {r \in Rows(table0[p]) :
                            r.batch = LastBatchOf(table0[p]) /\ r.id \in files}
            IN /\ Rows(table) = Rows(table0[p]) \ filed
               /\ filed # {} => Len(table) < Len(table0[p])
               /\ filed = {} => table = table0[p]

C26_Witness ==
    \E p \in Procs :
        /\ Done(p, "rollback")
        /\ result[p] = "ok"
        /\ Len(table0[p]) = 2
        /\ table = table0[p]
        /\ warned[p] = {2}

\* C28: the list rollback() reverses is in application order also under ties
\* of executed_at: the downs of a batch are taken in descending id order,
\* the reverse of the ascending order in which migrate() applied them.
C28_TiesKeepApplicationOrder ==
    \A p \in Procs :
        op[p] = "rollback" =>
            \A i, j \in 1..Len(pend0[p]) : i < j => pend0[p][i] > pend0[p][j]

\* C25: nothing keeps two concurrent migrate() invocations from executing
\* the up of the same migration: when one invocation has executed the up of
\* a migration pending for both and has not ended that step, the up of the
\* other invocation can run.
C25_UpNotExcluded ==
    \A p, q \in Procs :
        ( /\ p # q
          /\ op[p] = "migrate" /\ op[q] = "migrate"
          /\ pc[p] = "exec"
          /\ pc[q] \in {"write", "commit", "catch"}
          /\ Cur(q) = Cur(p) )
        => ENABLED ExecOk(p)

C25_Witness ==
    \E p, q \in Procs :
        /\ p # q
        /\ Done(p, "migrate") /\ failed[p].step = "write"
        /\ op[q] = "migrate"
        /\ failed[p].id \in Range(pend0[p]) \cap Range(pend0[q])
        /\ failed[p].id \in Range(invoked[p]) \cap Range(invoked[q])
        /\ step0[p].table = <<>>
        /\ failed[p].id \in RecIds(table)

\* The records an invocation of migrate() has written so far: those of the
\* migrations of its list that it has gone past.
WrittenBy(p) ==
    {r \in Rows(table) :
        /\ r.batch = batch[p]
        /\ \E k \in 1..(Len(pend0[p]) - Len(todo[p])) : pend0[p][k] = r.id}

\* C27: all records that share a batch number were written by one migrate()
\* invocation: the batch number of the records a running migrate() has
\* written is on no other record, also when two invocations run at once.
\* It holds while the catalog stays as it is (SpecConc) and fails when a file
\* arrives between the two invocations (SpecConcFiles).
C27_OneWriterPerBatch ==
    \A p \in Procs :
        (op[p] = "migrate" /\ WrittenBy(p) # {}) =>
            \A r \in Rows(table) : r.batch = batch[p] => r \in WrittenBy(p)

\* C30: the error a failed step propagates is the one that made it fail: the
\* error that reaches the caller is the error of the step that threw.
C30_PropagatesOwnError ==
    \A p \in Procs :
        (pc[p] = "done" /\ result[p] = "error") => thrown[p] = failed[p].step

\* The definition the column of the trial has in the schema it starts from.
StartDefs == {x.def : x \in {y \in trial.s0.cols :
                               /\ y.table = trial.up.table
                               /\ y.column = trial.up.column}}

\* C21: the down of a generated migration is the structural inverse of its
\* up, with the optional argument given or not: on a schema its up changes,
\* up then down gives the schema back, and down names the table and column
\* that up names. (An old definition, when given, is the one the column has.)
C21_DownInvertsUp ==
    ( /\ trial.kind # "none"
      /\ trial.s1 # trial.s0
      /\ (trial.given /\ trial.kind \in {"dropColumn", "changeColumn"})
           => trial.down.def \in StartDefs )
    => /\ trial.downOk
       /\ trial.s2 = trial.s0
       /\ trial.down.table = trial.up.table
       /\ trial.down.column = trial.up.column

\* The schema without table t and what belongs to it.
Without(s, t) ==
    [cols |-> {x \in s.cols : x.table # t},
     tables |-> s.tables \ {t},
     idx |-> {x \in s.idx : x.table # t}]

\* C22: a generated create-table file is in the next listing of the catalog,
\* under the id its name begins with, and its down drops the table of its up
\* and nothing else.
C22_CreateTableRoundTrip ==
    \A f \in disk :
        (f.content.kind = "createTable" /\ f.filename \in catalog.of) =>
            /\ \E k \in 1..Len(catalog.files) :
                 /\ catalog.files[k].filename = f.filename
                 /\ \E k2 \in 0..MaxTick :
                      catalog.files[k].id =
                        generateTimestamp([StartDate EXCEPT !.second = @ + k2])
                 /\ Len(catalog.files[k].id) = IdWidth
            /\ f.content.up.table \in TableNames
            /\ \A s \in StartSchemas :
                 /\ Apply(f.content.down, s).ok
                 /\ Apply(f.content.down, s).s = Without(s, f.content.up.table)

C22_Witness ==
    /\ Len(catalog.files) = 2
    /\ \E f \in disk :
         /\ f.content.kind = "createTable"
         /\ f.content.up.table = <<"U", "-", "x">>
         /\ f.filename \in catalog.of
         /\ catalog.files[2].filename = f.filename
         /\ catalog.files[2].name =
              <<"c", "r", "e", "a", "t", "e", "_", "u", "_", "x", "_",
                "t", "a", "b", "l", "e">>

\* C29: any two generator invocations give files with distinct ids, and no
\* invocation replaces a file written before.
C29_DistinctIdsNoOverwrite ==
    /\ Cardinality(disk) = Len(written)
    /\ \A i, j \in 1..Len(written) :
         i # j => SubSeq(written[i], 1, IdWidth) # SubSeq(written[j], 1, IdWidth)

====
